---- MODULE Spec2Model ----
(***************************************************************************)
(* AnalogLinear (aihwkit/nn/modules/linear.py): a dense layer whose        *)
(* weights live in an analog tile.  The layer keeps logical fields         *)
(* (.weight, .bias) next to the tile; set_weights / get_weights are the    *)
(* write / read path between them, optionally "realistic" (noisy).         *)
(*                                                                         *)
(* Numbers are fixed-point integers (one unit = one grid step).  The noise *)
(* of a realistic transfer is a nondeterministic nonzero step, up or down, *)
(* the same on every element of one transfer.                              *)
(***************************************************************************)
EXTENDS Integers, Sequences, FiniteSets, TLC

\* ---------------------------------------------------------------- bounds
\* Largest magnitude of a value a user (or the initializer) supplies.
MaxVal == 1
\* The nonzero weight_scaling_omega a layer may be built with.
MaxOmega == 2

Vals == (0 - MaxVal)..MaxVal
\* (out_features, in_features) of the layers built.
Shapes == {<<1, 2>>}
Omegas == {0, MaxOmega}
\* One realistic transfer moves every element by one step, up or down.
NoiseSteps == {0 - 1, 1}
\* The values the initializer of reset_parameters draws (never exactly zero).
InitVals == {0 - 1, 1}
\* The bias values a user supplies.
BiasVals == {0 - 1, 0, 1}
Backends == {"cpu", "cuda"}
\* A bias that is not there (None).
Absent == <<>>

\* ------------------------------------------------------- array helpers
Matrix(r, c, S) == [(1..r) -> [(1..c) -> S]]
Vector(n, S) == [(1..n) -> S]
Const(r, c, v) == [i \in 1..r |-> [j \in 1..c |-> v]]
ConstVec(n, v) == [i \in 1..n |-> v]
Shape(W) == <<Len(W), IF Len(W) = 0 THEN 0 ELSE Len(W[1])>>
Abs(v) == IF v < 0 THEN 0 - v ELSE v
Max2(a, b) == IF a >= b THEN a ELSE b
RECURSIVE RowMaxAbs(_, _)
RowMaxAbs(row, n) == IF n = 0 THEN 0 ELSE Max2(Abs(row[n]), RowMaxAbs(row, n - 1))
RECURSIVE MaxAbsUpTo(_, _)
MaxAbsUpTo(W, r) ==
    IF r = 0 THEN 0 ELSE Max2(RowMaxAbs(W[r], Len(W[r])), MaxAbsUpTo(W, r - 1))
\* The maximum absolute value of an array's entries (0 for an empty one).
MaxAbs(W) == MaxAbsUpTo(W, Len(W))
MatAdd(A, N) == [i \in 1..Len(A) |-> [j \in 1..Len(A[i]) |-> A[i][j] + N[i][j]]]
VecAdd(a, n) == [i \in 1..Len(a) |-> a[i] + n[i]]
\* Quotient rounded towards zero (the value grid's rounding).
TDiv(a, b) == IF a >= 0 THEN a \div b ELSE 0 - ((0 - a) \div b)
RECURSIVE Dot(_, _, _)
Dot(row, x, n) == IF n = 0 THEN 0 ELSE row[n] * x[n] + Dot(row, x, n - 1)

\* ----------------------------------------------------------------- tile
NoTile == [backend |-> "none", out_size |-> 0, in_size |-> 0, bias |-> FALSE,
           weights |-> <<>>, biases |-> Absent]

\* create_tile(in_features, out_features, bias, config) -> TileHandle
create_tile(inf, outf, b, backend) ==
    [backend |-> backend, out_size |-> outf, in_size |-> inf, bias |-> b,
     weights |-> Const(outf, inf, 0),
     biases |-> IF b THEN ConstVec(outf, 0) ELSE Absent]

\* tile.get_weights(realistic = false): the exact stored values.
tile_get_weights(t) == [W |-> t.weights, B |-> t.biases]

\* tile.get_weights(realistic = true): a fresh noisy read, the tile untouched.
tile_get_weights_realistic(t, nW, nB) ==
    [W |-> MatAdd(t.weights, nW),
     B |-> IF t.bias THEN VecAdd(t.biases, nB) ELSE Absent]

\* A bias handed to a layer built without bias is accepted and dropped: the
\* tests call set_weights(user_weights, user_biases) on bias=False layers too.
BiasAccepted(t, B) == IF t.bias THEN Len(B) = t.out_size ELSE TRUE

\* The tile's shape check (ShapeError on mismatch).
ShapeOK(t, W, B) ==
    /\ Shape(W) = <<t.out_size, t.in_size>>
    /\ \A i \in 1..Len(W) : Len(W[i]) = t.in_size
    /\ BiasAccepted(t, B)

\* tile.set_weights(weights, bias, realistic = false): an exact copy.
tile_set_weights(t, W, B) ==
    [t EXCEPT !.weights = W, !.biases = IF t.bias THEN B ELSE Absent]

\* tile.set_weights(weights, bias, realistic = true): a noisy commit.
tile_set_weights_realistic(t, W, B, nW, nB) ==
    [t EXCEPT !.weights = MatAdd(W, nW),
              !.biases = IF t.bias THEN VecAdd(B, nB) ELSE Absent]

\* Scale all weights so that the maximum absolute value maps to omega.  No
\* factor maps an all-zero array to omega: it is left as it is.
ScaleWeights(W, omega) ==
    IF omega = 0 \/ MaxAbs(W) = 0 THEN W
    ELSE LET m == MaxAbs(W)
         IN  [i \in 1..Len(W) |->
                 [j \in 1..Len(W[i]) |-> TDiv(W[i][j] * omega, m)]]

\* tile.forward(input, context, shared_weights, is_inference) -> output
tile_forward(t, x, is_inference) ==
    [i \in 1..t.out_size |->
        Dot(t.weights[i], x, t.in_size) + (IF t.bias THEN t.biases[i] ELSE 0)]

\* ---------------------------------------------------------------- layer
VARIABLES
    args,           \* the constructor's arguments
    cuda_compiled,  \* whether the build has the accelerator backend
    step,           \* position in __init__ (index into InitOrder)
    events,         \* what __init__ has done so far, in order
    layer,          \* the AnalogLinear object (self)
    last,           \* the last call: its name, inputs, result
    req,            \* the weights / bias last handed to an accepted write
    touched         \* .weight was assigned directly since the last sync

vars == <<args, cuda_compiled, step, events, layer, last, req, touched>>

Blank == [op |-> "none", err |-> "none", W |-> <<>>, B |-> Absent,
          retW |-> <<>>, retB |-> Absent, x |-> <<>>, out |-> <<>>,
          infer |-> FALSE, target |-> "none", before |-> NoTile]

NoLayer == [lifecycle |-> "Unbuilt", in_features |-> 0, out_features |-> 0,
            use_bias |-> FALSE, realistic_read_write |-> FALSE,
            weight_scaling_omega |-> 0, analog_tile |-> NoTile,
            weight |-> <<>>, bias |-> Absent, training |-> TRUE,
            params |-> {}]

\* After a write the logical fields are set to the exact read of the tile
\* (layer.weight equals analog_tile.get_weights() for both flag settings).
sync_weights_from_tile(L) ==
    LET r == tile_get_weights(L.analog_tile)
    IN  [L EXCEPT !.weight = r.W,
                  !.bias = IF L.use_bias THEN r.B ELSE Absent]

\* AnalogModuleBase.set_weights(weights, bias)
set_weights(L, W, B, nW, nB) ==
    IF L.analog_tile = NoTile THEN [err |-> "AttributeError", layer |-> L]
    ELSE IF ~ShapeOK(L.analog_tile, W, B) THEN [err |-> "ShapeError", layer |-> L]
    ELSE LET scaled == ScaleWeights(W, L.weight_scaling_omega)
             t == IF L.realistic_read_write
                  THEN tile_set_weights_realistic(L.analog_tile, scaled, B, nW, nB)
                  ELSE tile_set_weights(L.analog_tile, scaled, B)
         IN  [err |-> "none",
              layer |-> sync_weights_from_tile([L EXCEPT !.analog_tile = t])]

\* AnalogModuleBase.get_weights()
get_weights(L, nW, nB) ==
    IF L.realistic_read_write
    THEN tile_get_weights_realistic(L.analog_tile, nW, nB)
    ELSE tile_get_weights(L.analog_tile)

\* reset_parameters without its last line: the fields are regenerated and
\* nothing is written through to the tile.
reset_no_write(L, W0, B0, nW, nB) ==
    [err |-> "none",
     layer |-> [L EXCEPT !.weight = W0,
                         !.bias = IF L.use_bias THEN B0 ELSE Absent]]

\* AnalogLinear.reset_parameters: super().reset_parameters() regenerates the
\* fields (W0, B0), then set_weights(self.weight, self.bias).
reset_parameters(L, W0, B0, nW, nB) ==
    LET regenerated == [L EXCEPT !.weight = W0,
                                 !.bias = IF L.use_bias THEN B0 ELSE Absent]
    IN  set_weights(regenerated, regenerated.weight, regenerated.bias, nW, nB)

\* A forward pass computed from the logical fields instead of the tile.
forward_from_fields(L, x) ==
    [out |-> [i \in 1..L.out_features |->
                 Dot(L.weight[i], x, L.in_features)
                 + (IF L.use_bias THEN L.bias[i] ELSE 0)],
     is_inference |-> ~L.training]

\* AnalogLinear.forward
forward(L, x) ==
    [out |-> tile_forward(L.analog_tile, x, ~L.training),
     is_inference |-> ~L.training]

\* A migration that rebinds to the new tile before its contents are copied.
tile_migrate_unpopulated(t, target) ==
    IF t.backend = target THEN t
    ELSE create_tile(t.in_size, t.out_size, t.bias, target)

\* tile.migrate(target_backend): copy and rebind.
tile_migrate(t, target) ==
    IF t.backend = target THEN t
    ELSE LET fresh == create_tile(t.in_size, t.out_size, t.bias, target)
         IN  [fresh EXCEPT !.weights = t.weights, !.biases = t.biases]

\* A hook that reports success and leaves the tile where it was.
migrate_stays(L, target, compiled) ==
    IF target = "cuda" /\ ~compiled
    THEN [err |-> "BackendUnavailableError", layer |-> L]
    ELSE [err |-> "none", layer |-> L]

\* The layer's hook for the container's cuda() / cpu() / to(device).
migrate(L, target, compiled) ==
    IF target = "cuda" /\ ~compiled
    THEN [err |-> "BackendUnavailableError", layer |-> L]
    ELSE [err |-> "none",
          layer |-> [L EXCEPT !.analog_tile = tile_migrate(L.analog_tile, target)]]

\* The call with in_features and out_features swapped.
setup_tile_swapped(inf, outf, b, backend) == create_tile(outf, inf, b, backend)

\* The call self._setup_tile(in_features, out_features, bias, ...).
setup_tile(inf, outf, b, backend) == create_tile(inf, outf, b, backend)

\* super().__init__() called before the tile is created.
InitOrderSuperFirst == <<"super_init", "setup_tile", "register">>

\* The order of __init__: the tile first, then super().__init__() (which
\* runs reset_parameters), then the (un)registrations.
InitOrder == <<"setup_tile", "super_init", "register">>

\* ---------------------------------------------------------------- inputs
OutF == args.shape[1]
InF == args.shape[2]
\* The noise of one realistic transfer: the same step on every element.
Noise == IF args.realistic THEN NoiseSteps ELSE {0}
NoiseW(d) == Const(OutF, InF, d)
NoiseB(d) == ConstVec(OutF, d)
UserWeights == Matrix(OutF, InF, Vals)
UserBias == Vector(OutF, BiasVals)
InitWeights == Matrix(OutF, InF, InitVals)
InitBias == Vector(OutF, InitVals)
PokeWeights == {Const(OutF, InF, v) : v \in {0 - MaxVal, MaxVal}}
\* Arrays of the wrong shape: the transposed one, a column short.
WrongWeights == {Const(InF, OutF, 1), Const(OutF, InF - 1, 1)}
WrongBias == {ConstVec(OutF + 1, 1), Absent}
\* What a caller hands to set_weights: every well-shaped pair, a bias for a
\* layer that has none, and pairs with one of the two arrays ill-shaped.
Calls ==
    (UserWeights \X (IF args.bias THEN UserBias ELSE {Absent, ConstVec(OutF, 1)}))
    \cup (WrongWeights \X {ConstVec(OutF, 1)})
    \cup ({Const(OutF, InF, 1)} \X WrongBias)
ForwardInputs == {[i \in 1..InF |-> IF i = 1 THEN 1 ELSE 0], ConstVec(InF, 1)}

\* ------------------------------------------------------------------ Init
Args == [shape : Shapes, bias : BOOLEAN, realistic : BOOLEAN,
         omega : Omegas, backend : Backends]

Start ==
    /\ args \in Args
    /\ args.backend = "cuda" => cuda_compiled
    /\ step = 1
    /\ events = <<>>
    /\ layer = NoLayer
    /\ last = Blank
    /\ req = [W |-> <<>>, B |-> Absent]
    /\ touched = FALSE

\* A build without the accelerator backend: every layer configuration.
Init ==
    /\ cuda_compiled = FALSE
    /\ Start

\* Builds with and without the accelerator backend: exact (non-realistic),
\* unscaled layers.
InitCuda ==
    /\ cuda_compiled \in BOOLEAN
    /\ Start
    /\ ~args.realistic
    /\ args.omega = 0

\* --------------------------------------------------------------- __init__
InInit(name) == step <= Len(InitOrder) /\ InitOrder[step] = name

SetupTileWith(realistic, omega) ==
    /\ InInit("setup_tile")
    /\ layer' = [layer EXCEPT
                    !.analog_tile = setup_tile(InF, OutF, args.bias, args.backend),
                    !.in_features = InF, !.out_features = OutF,
                    !.use_bias = args.bias,
                    !.realistic_read_write = realistic,
                    !.weight_scaling_omega = omega,
                    !.lifecycle = "Constructed"]
    /\ events' = Append(events, "tile_created")
    /\ step' = step + 1
    /\ last' = [Blank EXCEPT !.op = "setup_tile"]
    /\ UNCHANGED <<args, cuda_compiled, req, touched>>

\* _setup_tile called without realistic_read_write (its default, False).
SetupTileNotRealistic == SetupTileWith(FALSE, args.omega)

\* _setup_tile called without weight_scaling_omega (its default, 0.0).
SetupTileNoOmega == SetupTileWith(args.realistic, 0)

\* self.analog_tile = self._setup_tile(...)
SetupTile ==
    /\ InInit("setup_tile")
    /\ layer' = [layer EXCEPT
                    !.analog_tile = setup_tile(InF, OutF, args.bias, args.backend),
                    !.in_features = InF, !.out_features = OutF,
                    !.use_bias = args.bias,
                    !.realistic_read_write = args.realistic,
                    !.weight_scaling_omega = args.omega,
                    !.lifecycle = "Constructed"]
    /\ events' = Append(events, "tile_created")
    /\ step' = step + 1
    /\ last' = [Blank EXCEPT !.op = "setup_tile"]
    /\ UNCHANGED <<args, cuda_compiled, req, touched>>

\* super().__init__(in_features, out_features, bias=bias), reset_parameters included
SuperInit ==
    /\ InInit("super_init")
    /\ \E W0 \in InitWeights, B0 \in InitBias, d \in Noise :
       \E r \in {reset_parameters(
                    [layer EXCEPT !.in_features = InF, !.out_features = OutF,
                                  !.use_bias = args.bias, !.training = TRUE,
                                  !.params = IF args.bias THEN {"weight", "bias"}
                                             ELSE {"weight"}],
                    W0, B0, NoiseW(d), NoiseB(d))} :
             /\ layer' = [r.layer EXCEPT !.lifecycle = "Initialized"]
             /\ last' = [Blank EXCEPT !.op = "reset_parameters", !.err = r.err,
                                      !.W = W0,
                                      !.B = IF args.bias THEN B0 ELSE Absent]
             /\ req' = IF r.err = "none"
                       THEN [W |-> W0, B |-> IF args.bias THEN B0 ELSE Absent]
                       ELSE req
    /\ events' = Append(events, "seeded")
    /\ step' = step + 1
    /\ touched' = FALSE
    /\ UNCHANGED <<args, cuda_compiled>>

\* An unregistration that deletes the fields together with the parameters.
RegisterTileDropsFields ==
    /\ InInit("register")
    /\ layer' = [layer EXCEPT !.params = {"analog_tile"}, !.lifecycle = "Ready",
                              !.weight = <<>>, !.bias = Absent]
    /\ events' = Append(events, "registered")
    /\ step' = step + 1
    /\ last' = [Blank EXCEPT !.op = "register"]
    /\ UNCHANGED <<args, cuda_compiled, req, touched>>

\* unregister_parameter('weight' / 'bias'); register_analog_tile(self.analog_tile)
RegisterTile ==
    /\ InInit("register")
    /\ layer' = [layer EXCEPT !.params = {"analog_tile"}, !.lifecycle = "Ready"]
    /\ events' = Append(events, "registered")
    /\ step' = step + 1
    /\ last' = [Blank EXCEPT !.op = "register"]
    /\ UNCHANGED <<args, cuda_compiled, req, touched>>

\* ------------------------------------------------------------ operations
Ready == layer.lifecycle = "Ready"

SetWeights ==
    /\ Ready
    /\ \E c \in Calls, d \in Noise :
       \E r \in {set_weights(layer, c[1], c[2], NoiseW(d), NoiseB(d))} :
         LET W == c[1]
             B == c[2]
         IN  /\ layer' = r.layer
             /\ last' = [Blank EXCEPT !.op = "set_weights", !.err = r.err,
                                      !.W = W, !.B = B]
             /\ req' = IF r.err = "none" THEN [W |-> W, B |-> B] ELSE req
             /\ touched' = IF r.err = "none" THEN FALSE ELSE touched
    /\ UNCHANGED <<args, cuda_compiled, step, events>>

GetWeights ==
    /\ Ready
    /\ \E d \in Noise :
       \E r \in {get_weights(layer, NoiseW(d), NoiseB(d))} :
             last' = [Blank EXCEPT !.op = "get_weights", !.retW = r.W, !.retB = r.B]
    /\ UNCHANGED <<args, cuda_compiled, step, events, layer, req, touched>>

ResetParameters ==
    /\ Ready
    /\ \E W0 \in InitWeights, B0 \in InitBias, d \in Noise :
       \E r \in {reset_parameters(layer, W0, B0, NoiseW(d), NoiseB(d))} :
             /\ layer' = r.layer
             /\ last' = [Blank EXCEPT !.op = "reset_parameters", !.err = r.err,
                                      !.W = W0,
                                      !.B = IF layer.use_bias THEN B0 ELSE Absent]
             /\ req' = IF r.err = "none"
                       THEN [W |-> W0, B |-> IF layer.use_bias THEN B0 ELSE Absent]
                       ELSE req
    /\ touched' = FALSE
    /\ UNCHANGED <<args, cuda_compiled, step, events>>

Forward ==
    /\ Ready
    /\ \E x \in ForwardInputs :
       \E r \in {forward(layer, x)} :
             last' = [Blank EXCEPT !.op = "forward", !.x = x, !.out = r.out,
                                   !.infer = r.is_inference]
    /\ UNCHANGED <<args, cuda_compiled, step, events, layer, req, touched>>

\* model.cuda(), model.cpu(), model.to(device)
Migrate ==
    /\ Ready
    /\ \E target \in Backends :
       \E r \in {migrate(layer, target, cuda_compiled)} :
             /\ layer' = r.layer
             /\ last' = [Blank EXCEPT !.op = "migrate", !.err = r.err,
                                      !.target = target,
                                      !.before = layer.analog_tile]
    /\ UNCHANGED <<args, cuda_compiled, step, events, req, touched>>

\* A direct assignment to the .weight field: it does not reach the tile.
WriteField ==
    /\ Ready
    /\ \E W \in PokeWeights :
         /\ W # layer.weight
         /\ layer' = [layer EXCEPT !.weight = W]
    /\ last' = [Blank EXCEPT !.op = "write_field"]
    /\ touched' = TRUE
    /\ UNCHANGED <<args, cuda_compiled, step, events, req>>

\* train() / eval()
SetTraining ==
    /\ Ready
    /\ layer' = [layer EXCEPT !.training = ~layer.training]
    /\ last' = [Blank EXCEPT !.op = "set_training"]
    /\ UNCHANGED <<args, cuda_compiled, step, events, req, touched>>

Next ==
    \/ SetupTile
    \/ SuperInit
    \/ RegisterTile
    \/ SetWeights
    \/ GetWeights
    \/ ResetParameters
    \/ Forward
    \/ Migrate
    \/ WriteField
    \/ SetTraining

Spec == Init /\ [][Next]_vars

SpecCuda == InitCuda /\ [][Next]_vars

\* ---------------------------------------------------------------- claims
Tile == layer.analog_tile
Exact == tile_get_weights(Tile)
Wrote == last.op \in {"set_weights", "reset_parameters"} /\ last.err = "none"
Built == layer.lifecycle \in {"Initialized", "Ready"}
\* The request is one the interface describes: a bias of length out_features
\* on a layer with bias, no bias on a layer without.
ValidRequest ==
    /\ Shape(req.W) = <<OutF, InF>>
    /\ IF args.bias THEN Len(req.B) = OutF ELSE req.B = Absent
WithinNoise(A, C) ==
    \A i \in 1..Len(A) : \A j \in 1..Len(A[i]) : Abs(A[i][j] - C[i][j]) <= 1

\* C1: on a layer built with realistic_read_write = False and
\* weight_scaling_omega = 0, a get_weights() after an accepted
\* set_weights(W, B) returns exactly W and B, and the tile stores W and B.
C1_RoundTrip ==
    (last.op = "get_weights" /\ ~args.realistic /\ args.omega = 0 /\ ValidRequest)
        => /\ last.retW = req.W
           /\ last.retB = req.B
           /\ Tile.weights = req.W
           /\ Tile.biases = req.B

C1_Witness ==
    /\ last.op = "get_weights"
    /\ ~args.realistic /\ args.omega = 0 /\ args.bias
    /\ ValidRequest
    /\ MaxAbs(req.W) > 0
    /\ req.W # Const(OutF, InF, req.W[1][1])
    /\ last.retW = req.W /\ last.retB = req.B

\* C2: once the layer is constructed, and after every accepted write, the
\* logical fields equal the exact read of the tile (as long as no field was
\* assigned directly), with realistic_read_write true and false alike.
C2_Synced ==
    (Built /\ ~touched)
        => /\ layer.weight = Exact.W
           /\ args.bias => layer.bias = Exact.B

C2_Witness ==
    /\ last.op = "set_weights" /\ last.err = "none"
    /\ args.realistic /\ args.bias
    /\ layer.weight # last.W
    /\ layer.bias # last.B
    /\ layer.weight = Exact.W /\ layer.bias = Exact.B

C4_Original ==
    (last.op = "get_weights" /\ ~touched)
        => /\ layer.weight = last.retW
           /\ args.bias => layer.bias = last.retB

\* C4 amended: after an accepted write the logical fields equal what a
\* following get_weights() returns when realistic_read_write is False; when it
\* is True the fields hold the tile's exact values and get_weights() returns a
\* fresh reading that differs from them.
C4_FieldsVsRead ==
    (last.op = "get_weights" /\ ~touched)
        => IF args.realistic
           THEN /\ layer.weight = Exact.W
                /\ layer.weight # last.retW
                /\ args.bias => (layer.bias = Exact.B /\ layer.bias # last.retB)
           ELSE /\ layer.weight = last.retW
                /\ args.bias => layer.bias = last.retB

C4_Witness ==
    /\ last.op = "get_weights" /\ ~touched
    /\ ~args.realistic /\ args.bias /\ args.omega > 0
    /\ MaxAbs(req.W) > 0
    /\ layer.weight # req.W
    /\ layer.weight = last.retW /\ layer.bias = last.retB

\* What C5 calls a bias inconsistent with the layer's bias configuration.
BiasInconsistent(B) == IF args.bias THEN Len(B) # OutF ELSE B # Absent

\* C5 as stated: a set_weights call whose weights are not
\* (out_features x in_features), or whose bias is inconsistent with the
\* layer's bias configuration, fails with ShapeError.
C5_Original ==
    (last.op = "set_weights"
       /\ (Shape(last.W) # <<OutF, InF>> \/ BiasInconsistent(last.B)))
        => last.err = "ShapeError"

\* C5 amended: a set_weights call whose weights are not
\* (out_features x in_features), or whose bias is missing or of the wrong
\* length on a layer built with bias, fails with ShapeError and leaves the tile
\* and the logical fields as they were; a bias handed to a layer built
\* without bias is accepted.
C5_ShapeError ==
    /\ [](last.op = "set_weights"
            => (last.err = "ShapeError"
                  <=> (Shape(last.W) # <<OutF, InF>>
                         \/ (args.bias /\ Len(last.B) # OutF))))
    /\ [][(last'.op = "set_weights" /\ last'.err = "ShapeError")
            => (layer' = layer /\ req' = req /\ touched' = touched)]_vars

C5_Witness ==
    /\ last.op = "set_weights" /\ last.err = "ShapeError"
    /\ Shape(last.W) = <<InF, OutF>>
    /\ MaxAbs(Tile.weights) > 0
    /\ touched

\* C6: a migration that returns leaves the tile on the requested backend,
\* whatever backend it was on; a migration to the backend it is on changes
\* nothing.
C6_Backend ==
    (last.op = "migrate")
        => /\ last.err = "none" => Tile.backend = last.target
           /\ last.before.backend = last.target => Tile = last.before
           /\ last.err = "BackendUnavailableError"
                 <=> (last.target = "cuda" /\ ~cuda_compiled)

C6_Witness ==
    /\ last.op = "migrate" /\ last.err = "none"
    /\ args.backend = "cpu"
    /\ last.before.backend = "cpu"
    /\ Tile.backend = "cuda"

\* C7 as stated: with weight_scaling_omega = Omega > 0 on a non-realistic
\* layer, after set_weights(W, _) for any W the maximum absolute value of the
\* tile's weights equals Omega.
C7_Original ==
    (Wrote /\ args.omega > 0 /\ ~args.realistic)
        => MaxAbs(Tile.weights) = args.omega

\* C7 amended: with weight_scaling_omega = Omega > 0, after set_weights(W, _)
\* for any W with a nonzero entry the maximum absolute value of the tile's
\* weights equals Omega (exactly on a non-realistic layer, within the noise
\* step on a realistic one) and a read-back returns the scaled values; with
\* Omega = 0 the weights are committed unscaled.
C7_Scaling ==
    /\ (Wrote /\ args.omega > 0 /\ MaxAbs(last.W) > 0)
          => IF args.realistic
             THEN /\ Abs(MaxAbs(Tile.weights) - args.omega) <= 1
                  /\ WithinNoise(Tile.weights, ScaleWeights(last.W, args.omega))
             ELSE /\ MaxAbs(Tile.weights) = args.omega
                  /\ Tile.weights = ScaleWeights(last.W, args.omega)
    /\ (Wrote /\ args.omega = 0 /\ ~args.realistic) => Tile.weights = last.W
    /\ (last.op = "get_weights" /\ ~args.realistic /\ args.omega > 0
          /\ MaxAbs(req.W) > 0)
          => /\ last.retW = ScaleWeights(req.W, args.omega)
             /\ MaxAbs(last.retW) = args.omega

C7_Witness ==
    /\ last.op = "set_weights" /\ last.err = "none"
    /\ args.omega > 0 /\ ~args.realistic
    /\ MaxAbs(last.W) > 0
    /\ MaxAbs(last.W) # args.omega
    /\ Tile.weights # last.W
    /\ MaxAbs(Tile.weights) = args.omega

\* The output a forward pass over the fields would give.
FieldsOutput(x) == forward_from_fields(layer, x).out

\* C8: the output of forward is the one the tile's stored values determine,
\* also when the logical fields differ from them, and the inference indicator
\* is the negation of the training flag.
C8_ForwardFromTile ==
    (last.op = "forward")
        => /\ last.out = [i \in 1..OutF |->
                            Dot(Tile.weights[i], last.x, InF)
                            + (IF args.bias THEN Tile.biases[i] ELSE 0)]
           /\ last.infer = ~layer.training

C8_Witness ==
    /\ last.op = "forward"
    /\ touched
    /\ layer.weight # Tile.weights
    /\ last.out # FieldsOutput(last.x)
    /\ last.infer

LifecycleOrder == <<"Constructed", "Initialized", "Ready">>
EventOrder == <<"tile_created", "seeded", "registered">>

\* C9: __init__ creates the tile before the parameters are seeded, so
\* set_weights never runs on a layer without a tile and the lifecycle goes
\* Constructed, Initialized, Ready; every reset_parameters leaves the tile
\* seeded with the regenerated values and the fields equal to the tile.
C9_SeedingOrder ==
    /\ Len(events) <= Len(EventOrder)
    /\ events = SubSeq(EventOrder, 1, Len(events))
    /\ layer.lifecycle = IF events = <<>> THEN "Unbuilt"
                         ELSE LifecycleOrder[Len(events)]
    /\ last.err # "AttributeError"
    /\ Built => Tile # NoTile
    /\ (last.op = "reset_parameters")
          => /\ last.err = "none"
             /\ layer.weight = Exact.W
             /\ args.bias => layer.bias = Exact.B
             /\ WithinNoise(Tile.weights, ScaleWeights(last.W, args.omega))
             /\ ~args.realistic
                   => /\ Tile.weights = ScaleWeights(last.W, args.omega)
                      /\ Tile.biases = last.B

C9_Witness ==
    /\ layer.lifecycle = "Ready"
    /\ Len(events) = Len(EventOrder)
    /\ last.op = "reset_parameters"
    /\ args.bias /\ ~args.realistic /\ args.omega = 0
    /\ Tile.weights = last.W /\ Tile.biases = last.B
    /\ layer.weight = last.W

====
